---- MODULE Spec2Model ----
(***************************************************************************)
(* A model of the 16-ary hexadecimal trie of src/src/main.rs.              *)
(*                                                                         *)
(* A tree of Node values is represented by a function from paths to        *)
(* values: the domain is the set of nodes, each named by the sequence of   *)
(* child indices that leads to it from the root (<<>> is the root), and    *)
(* the function gives each node's `value` field.  The slot                 *)
(* children[i] of the node at path p is Some exactly when Append(p, i) is  *)
(* in the domain.  Strings are sequences of one-character strings.         *)
(***************************************************************************)
EXTENDS Naturals, Sequences, FiniteSets, TLC

VARIABLES root, op, ret, pre, panicked, inserted

vars == <<root, op, ret, pre, panicked, inserted>>

\* Option::None, for a node's value and for get's result.
None == "None"

\* Number of child slots of a node: vec![None; 16].
NumSlots == 16

\* Longest nibble vector the callers build for insert_nibbles.
MaxNibbles == 3

\* The values the callers store.
Values == {"v1", "v2"}

\* The key strings the callers pass to insert, get and delete.
Keys ==
    { <<>>,
      <<"A", "1", "g">>,
      <<"a", "1", "f">>,
      <<"a", "1", "e">>,
      <<"b", "0">> }

\* The nibble sequences the callers pass to insert_nibbles; 16 is a usize
\* that is no valid slot index.
NibblePool ==
    { <<10, 1, 15>>,
      <<11, 16>>,
      <<10, 1, 15, 0>> }

NibbleSeqs == { n \in NibblePool : Len(n) <= MaxNibbles }

(***************************************************************************)
(* Helpers                                                                 *)
(***************************************************************************)

\* b"0123456789abcdef"; the source's NIBBLE_TO_HEX[n] is NIBBLE_TO_HEX[n + 1]
\* here (sequences are 1-based).
NIBBLE_TO_HEX ==
    <<"0", "1", "2", "3", "4", "5", "6", "7",
      "8", "9", "a", "b", "c", "d", "e", "f">>

\* The upper-case digits char::to_digit(16) accepts as well.
UPPER_HEX ==
    <<"0", "1", "2", "3", "4", "5", "6", "7",
      "8", "9", "A", "B", "C", "D", "E", "F">>

\* A faulty to_digit: the upper-case digits are not accepted.
to_digit_lower_only(c) ==
    IF \E i \in 1..16 : NIBBLE_TO_HEX[i] = c
    THEN <<(CHOOSE i \in 1..16 : NIBBLE_TO_HEX[i] = c) - 1>>
    ELSE <<>>

\* c.to_digit(16) as an Option: <<d>> for Some(d), <<>> for None (a character
\* that is no hexadecimal digit).
to_digit(c) ==
    IF \E i \in 1..16 : NIBBLE_TO_HEX[i] = c \/ UPPER_HEX[i] = c
    THEN <<(CHOOSE i \in 1..16 : NIBBLE_TO_HEX[i] = c \/ UPPER_HEX[i] = c) - 1>>
    ELSE <<>>

\* s.chars().filter_map(|c| c.to_digit(16)): the digits of s in order, the
\* other characters dropped.
RECURSIVE hex_to_nibbles(_)
hex_to_nibbles(s) ==
    IF s = <<>> THEN <<>>
    ELSE to_digit(Head(s)) \o hex_to_nibbles(Tail(s))

(***************************************************************************)
(* Node                                                                    *)
(***************************************************************************)

\* Node::new(): a node with 16 empty slots and no value.
Node_new == (<<>> :> None)

\* node.children[i].is_some() for the node at path p.
has_child(t, p, i) == Append(p, i) \in DOMAIN t

\* The paths of t at or below path p.
IsPrefix(p, q) == Len(p) <= Len(q) /\ SubSeq(q, 1, Len(p)) = p

\* node.children.iter().all(|c| c.is_none()) for the node at path p.
no_children(t, p) == \A i \in 0..(NumSlots - 1) : ~has_child(t, p, i)

RECURSIVE delete_rec(_, _, _)
RECURSIVE get_walk(_, _, _)
RECURSIVE insert_walk(_, _, _)

\* A faulty drop_child: the assignment forgotten, the slot keeps its child.
drop_child_forgotten(t, p, idx) == t

\* node.children[idx] = None: the child and all it owns are dropped.
drop_child(t, p, idx) ==
    LET c == Append(p, idx)
    IN  [q \in { q \in DOMAIN t : ~IsPrefix(c, q) } |-> t[q]]

\* A faulty loop of insert: the slot is assigned a new node on every
\* descent (no get_or_insert_with), so a child already there is dropped.
insert_walk_recreates(t, cur, nibbles) ==
    IF nibbles = <<>> THEN [tree |-> t, cur |-> cur, panicked |-> FALSE]
    ELSE LET nibble == Head(nibbles)
             child == Append(cur, nibble)
         IN  IF nibble >= NumSlots
             THEN [tree |-> t, cur |-> cur, panicked |-> TRUE]
             ELSE insert_walk(drop_child(t, cur, nibble) @@ (child :> None),
                              child, Tail(nibbles))

\* The loop of insert: from cur, descend one slot per nibble, creating the
\* missing children.  Indexing children with idx >= 16 panics.
insert_walk(t, cur, nibbles) ==
    IF nibbles = <<>> THEN [tree |-> t, cur |-> cur, panicked |-> FALSE]
    ELSE LET nibble == Head(nibbles)
             child == Append(cur, nibble)
         IN  IF nibble >= NumSlots
             THEN [tree |-> t, cur |-> cur, panicked |-> TRUE]
             ELSE insert_walk(IF has_child(t, cur, nibble) THEN t
                              ELSE t @@ (child :> None),
                              child, Tail(nibbles))

\* A faulty insert: the value is stored only where there is none yet
\* (get_or_insert in place of the assignment).
insert_keeps_old(t, hex_key, value) ==
    LET w == insert_walk(t, <<>>, hex_to_nibbles(hex_key))
    IN  [tree |-> IF w.tree[w.cur] = None
                  THEN [w.tree EXCEPT ![w.cur] = value]
                  ELSE w.tree,
         panicked |-> w.panicked]

\* A faulty insert: the terminal node is replaced by a new node holding the
\* value (*cur = Node { value, ..Node::new() }), its children dropped.
insert_replaces_node(t, hex_key, value) ==
    LET w == insert_walk(t, <<>>, hex_to_nibbles(hex_key))
    IN  [tree |-> [q \in { q \in DOMAIN w.tree :
                             q = w.cur \/ ~IsPrefix(w.cur, q) } |->
                      IF q = w.cur THEN value ELSE w.tree[q]],
         panicked |-> w.panicked]

\* A faulty insert: a key without nibbles is taken to mean nothing to store.
insert_skips_empty_key(t, hex_key, value) ==
    LET w == insert_walk(t, <<>>, hex_to_nibbles(hex_key))
    IN  IF w.panicked THEN [tree |-> w.tree, panicked |-> TRUE]
        ELSE IF hex_to_nibbles(hex_key) = <<>>
        THEN [tree |-> t, panicked |-> FALSE]
        ELSE [tree |-> [w.tree EXCEPT ![w.cur] = value], panicked |-> FALSE]

\* Node::insert
insert(t, hex_key, value) ==
    LET w == insert_walk(t, <<>>, hex_to_nibbles(hex_key))
    IN  IF w.panicked THEN [tree |-> w.tree, panicked |-> TRUE]
        ELSE [tree |-> [w.tree EXCEPT ![w.cur] = value], panicked |-> FALSE]

\* The loop of insert_nibbles (the same loop, written out again in the
\* source).
RECURSIVE insert_nibbles_walk(_, _, _)
insert_nibbles_walk(t, cur, nibbles) ==
    IF nibbles = <<>> THEN [tree |-> t, cur |-> cur, panicked |-> FALSE]
    ELSE LET nib == Head(nibbles)
             child == Append(cur, nib)
         IN  IF nib >= NumSlots
             THEN [tree |-> t, cur |-> cur, panicked |-> TRUE]
             ELSE insert_nibbles_walk(IF has_child(t, cur, nib) THEN t
                                      ELSE t @@ (child :> None),
                                      child, Tail(nibbles))

\* A faulty insert_nibbles: the value is stored only where there is none
\* yet.
insert_nibbles_keeps_old(t, nibbles, value) ==
    LET w == insert_nibbles_walk(t, <<>>, nibbles)
    IN  IF w.panicked THEN [tree |-> w.tree, panicked |-> TRUE]
        ELSE [tree |-> IF w.tree[w.cur] = None
                       THEN [w.tree EXCEPT ![w.cur] = value]
                       ELSE w.tree,
              panicked |-> FALSE]

\* Node::insert_nibbles
insert_nibbles(t, nibbles, value) ==
    LET w == insert_nibbles_walk(t, <<>>, nibbles)
    IN  IF w.panicked THEN [tree |-> w.tree, panicked |-> TRUE]
        ELSE [tree |-> [w.tree EXCEPT ![w.cur] = value], panicked |-> FALSE]

\* A faulty loop of get: at an empty slot it leaves the loop (break) in
\* place of returning None, and so returns the value of the node it stopped
\* at.
get_walk_break(t, cur, nibbles) ==
    IF nibbles = <<>> THEN t[cur]
    ELSE IF has_child(t, cur, Head(nibbles))
         THEN get_walk(t, Append(cur, Head(nibbles)), Tail(nibbles))
         ELSE t[cur]

\* The loop of get: None at the first empty slot, else the value of the
\* node reached.
get_walk(t, cur, nibbles) ==
    IF nibbles = <<>> THEN t[cur]
    ELSE IF has_child(t, cur, Head(nibbles))
         THEN get_walk(t, Append(cur, Head(nibbles)), Tail(nibbles))
         ELSE None

\* Node::get
get(t, hex_key) == get_walk(t, <<>>, hex_to_nibbles(hex_key))

\* A faulty is_dead: the value is not looked at.
is_dead_ignores_value(t, p) == no_children(t, p)

\* A faulty is_dead: the children are not looked at.
is_dead_ignores_children(t, p) == t[p] = None

\* A faulty is_dead: is_some in place of is_none.
is_dead_is_some(t, p) == t[p] # None /\ no_children(t, p)

\* node.value.is_none() && node.children.iter().all(|c| c.is_none()) for the
\* node at path p: what delete_rec returns.
is_dead(t, p) == t[p] = None /\ no_children(t, p)

\* A faulty delete_rec: the flag of an inner node is computed eagerly, before
\* the child is processed and pruned.
delete_rec_eager(t, p, nibbles) ==
    IF nibbles = <<>>
    THEN [tree |-> [t EXCEPT ![p] = None],
          should_prune |-> is_dead([t EXCEPT ![p] = None], p)]
    ELSE LET idx == Head(nibbles)
             flag == is_dead(t, p)
         IN  IF has_child(t, p, idx)
             THEN LET r == delete_rec(t, Append(p, idx), Tail(nibbles))
                  IN  [tree |-> IF r.should_prune
                                THEN drop_child(r.tree, p, idx)
                                ELSE r.tree,
                       should_prune |-> flag]
             ELSE [tree |-> t, should_prune |-> flag]

\* delete_rec(node, nibbles) for the node at path p: the tree afterwards and
\* the returned flag.
delete_rec(t, p, nibbles) ==
    LET after ==
            IF nibbles = <<>> THEN [t EXCEPT ![p] = None]
            ELSE LET idx == Head(nibbles)
                 IN  IF has_child(t, p, idx)
                     THEN LET r == delete_rec(t, Append(p, idx), Tail(nibbles))
                          IN  IF r.should_prune
                              THEN drop_child(r.tree, p, idx)
                              ELSE r.tree
                     ELSE t
    IN  [tree |-> after, should_prune |-> is_dead(after, p)]

\* A faulty delete: an empty nibble sequence is taken to mean nothing to do.
delete_skips_empty_key(t, hex_key) ==
    IF hex_to_nibbles(hex_key) = <<>>
    THEN [tree |-> t, should_prune |-> is_dead(t, <<>>)]
    ELSE delete_rec(t, <<>>, hex_to_nibbles(hex_key))

\* A faulty delete: it returns whether the key held a value.
delete_reports_found(t, hex_key) ==
    [tree |-> delete_rec(t, <<>>, hex_to_nibbles(hex_key)).tree,
     should_prune |-> get(t, hex_key) # None]

\* Node::delete
delete(t, hex_key) == delete_rec(t, <<>>, hex_to_nibbles(hex_key))

(***************************************************************************)
(* Display: the pretty printer.  A line is the sequence of the pieces      *)
(* written to it; the output is the sequence of lines.  The box-drawing    *)
(* glyphs of the source are written in ASCII.                              *)
(***************************************************************************)

\* The bullet of a last child (up-and-right corner, two dashes, a space).
BULLET_LAST == "L-- "

\* The bullet of any other child (vertical-and-right tee, two dashes, a space).
BULLET_MID == "+-- "

\* The indent below an ancestor that is not last (vertical bar, three spaces).
INDENT_BAR == "|   "

\* The indent below an ancestor that is last (four spaces).
INDENT_BLANK == "    "

\* node.value.as_ref().map(|v| format!(" = {}", v)).unwrap_or_default()
value_str(v) == IF v = None THEN <<>> ELSE <<" = ", v>>

\* present.sort_by_key(|(i, _)| *i): a stable sort by slot index.
RECURSIVE sort_by_key(_)
sort_by_key(s) ==
    IF s = <<>> THEN <<>>
    ELSE LET rest == sort_by_key(Tail(s))
         IN  SelectSeq(rest, LAMBDA j : j < Head(s)) \o <<Head(s)>>
                 \o SelectSeq(rest, LAMBDA j : j >= Head(s))

\* A faulty present: sorted with the key reversed, highest slot first.
present_children_descending(t, p) ==
    LET asc == sort_by_key(SelectSeq([i \in 1..NumSlots |-> i - 1],
                                     LAMBDA i : has_child(t, p, i)))
    IN  [i \in 1..Len(asc) |-> asc[Len(asc) + 1 - i]]

\* The slots of the node at path p that hold a child, in the order the
\* source collects and then sorts them.
present_children(t, p) ==
    sort_by_key(SelectSeq([i \in 1..NumSlots |-> i - 1],
                          LAMBDA i : has_child(t, p, i)))

RECURSIVE print_rec(_, _, _, _, _)
RECURSIVE print_children(_, _, _, _, _)

\* A faulty print_rec: the two indents are exchanged, the bar drawn below a
\* last node and the blank below the others.
print_rec_swapped_indent(t, prefix_path, indent, is_last, is_root) ==
    LET bullet == IF is_root THEN ""
                  ELSE IF is_last THEN BULLET_LAST ELSE BULLET_MID
        line == IF is_root
                THEN <<"(root)">> \o value_str(t[prefix_path])
                ELSE indent
                         \o <<bullet, NIBBLE_TO_HEX[prefix_path[Len(prefix_path)] + 1]>>
                         \o value_str(t[prefix_path])
        present == present_children(t, prefix_path)
        next_indent == IF is_root THEN indent
                       ELSE indent \o <<IF is_last THEN INDENT_BAR
                                        ELSE INDENT_BLANK>>
    IN  <<line>> \o print_children(t, prefix_path, present, 1, next_indent)

\* print_rec for the node at prefix_path: the lines it writes.
print_rec(t, prefix_path, indent, is_last, is_root) ==
    LET bullet == IF is_root THEN ""
                  ELSE IF is_last THEN BULLET_LAST ELSE BULLET_MID
        line == IF is_root
                THEN <<"(root)">> \o value_str(t[prefix_path])
                ELSE LET path_hex == [n \in 1..Len(prefix_path) |->
                                         NIBBLE_TO_HEX[prefix_path[n] + 1]]
                         last_hex == path_hex[Len(path_hex)]
                     IN  indent \o <<bullet, last_hex>>
                             \o value_str(t[prefix_path])
        present == present_children(t, prefix_path)
        next_indent == IF is_root THEN indent
                       ELSE indent \o <<IF is_last THEN INDENT_BLANK
                                        ELSE INDENT_BAR>>
    IN  <<line>> \o print_children(t, prefix_path, present, 1, next_indent)

\* The loop over present, from its i-th element on.
print_children(t, prefix_path, present, i, next_indent) ==
    IF i > Len(present) THEN <<>>
    ELSE print_rec(t, Append(prefix_path, present[i]), next_indent,
                   i = Len(present), FALSE)
             \o print_children(t, prefix_path, present, i + 1, next_indent)

\* <Node as fmt::Display>::fmt
fmt(t) == print_rec(t, <<>>, <<>>, TRUE, TRUE)

(***************************************************************************)
(* The operations, as the caller runs them one after the other.            *)
(***************************************************************************)

NoOp == [name |-> "new", key |-> <<>>, nibbles |-> <<>>, value |-> None]

\* let mut trie = Node::new();
Init ==
    /\ root = Node_new
    /\ op = NoOp
    /\ ret = None
    /\ pre = Node_new
    /\ panicked = FALSE
    /\ inserted = {}

Insert(k, v) ==
    /\ ~panicked
    /\ LET r == insert(root, k, v)
       IN  /\ root' = r.tree
           /\ panicked' = r.panicked
    /\ op' = [name |-> "insert", key |-> k, nibbles |-> <<>>, value |-> v]
    /\ ret' = None
    /\ pre' = root

InsertNibbles(n, v) ==
    /\ ~panicked
    /\ LET r == insert_nibbles(root, n, v)
       IN  /\ root' = r.tree
           /\ panicked' = r.panicked
    /\ op' = [name |-> "insert_nibbles", key |-> <<>>, nibbles |-> n, value |-> v]
    /\ ret' = None
    /\ pre' = root

\* A faulty get: it descends as insert does (get_or_insert_with), creating
\* the nodes that are missing on the key's path.
Get_creates(k) ==
    /\ ~panicked
    /\ ret' = get(root, k)
    /\ op' = [name |-> "get", key |-> k, nibbles |-> <<>>, value |-> None]
    /\ pre' = root
    /\ root' = insert_walk(root, <<>>, hex_to_nibbles(k)).tree
    /\ UNCHANGED panicked

Get(k) ==
    /\ ~panicked
    /\ ret' = get(root, k)
    /\ op' = [name |-> "get", key |-> k, nibbles |-> <<>>, value |-> None]
    /\ pre' = root
    /\ UNCHANGED <<root, panicked>>

Delete(k) ==
    /\ ~panicked
    /\ LET r == delete(root, k)
       IN  /\ root' = r.tree
           /\ ret' = r.should_prune
    /\ op' = [name |-> "delete", key |-> k, nibbles |-> <<>>, value |-> None]
    /\ pre' = root
    /\ UNCHANGED panicked

Render ==
    /\ ~panicked
    /\ ret' = fmt(root)
    /\ op' = [name |-> "render", key |-> <<>>, nibbles |-> <<>>, value |-> None]
    /\ pre' = root
    /\ UNCHANGED <<root, panicked>>

\* The nibble sequence the call just made stored a value under, if any.
Stored ==
    IF panicked' THEN {}
    ELSE IF op'.name = "insert" THEN {hex_to_nibbles(op'.key)}
    ELSE IF op'.name = "insert_nibbles" THEN {op'.nibbles}
    ELSE {}

\* The history variable `inserted` records every nibble sequence a completed
\* insert or insert_nibbles has stored under.
Record == inserted' = inserted \cup Stored

\* One call of the caller.
Next ==
    \/ \E k \in Keys, v \in Values : Insert(k, v) /\ UNCHANGED inserted
    \/ \E n \in NibbleSeqs, v \in Values : InsertNibbles(n, v) /\ UNCHANGED inserted
    \/ \E k \in Keys : Get(k) /\ UNCHANGED inserted
    \/ \E k \in Keys : Delete(k) /\ UNCHANGED inserted
    \/ Render /\ UNCHANGED inserted

Spec == Init /\ [][Next]_vars

\* The same program with the history recorded.
NextHist ==
    \/ \E k \in Keys, v \in Values : Insert(k, v) /\ Record
    \/ \E n \in NibbleSeqs, v \in Values : InsertNibbles(n, v) /\ Record
    \/ \E k \in Keys : Get(k) /\ Record
    \/ \E k \in Keys : Delete(k) /\ Record
    \/ Render /\ Record

SpecHist == Init /\ [][NextHist]_vars

(***************************************************************************)
(* Properties                                                              *)
(***************************************************************************)

\* The prefixes of path p, p itself included.
Prefixes(p) == { SubSeq(p, 1, n) : n \in 0..Len(p) }

\* The keys the properties look up: every prefix of a key the callers pass
\* (so every node their keys can create is looked up), and keys that lead
\* off them or extend them.
ProbeKeys ==
    UNION { Prefixes(k) : k \in Keys }
        \cup { <<"a", "1", "d">>, <<"b", "0", "0">>, <<"c">>, <<"a", "g">>,
               <<"a", "1", "f", "0">>, <<"a", "1", "f", "0", "0">> }

\* C1: after insert(k, v), in any state the callers can reach, the get(k)
\* that follows returns v.
C1_RoundTrip ==
    op.name = "insert" => get(root, op.key) = op.value

\* C1 happens: a value was inserted into a non-empty trie under a key that
\* did not return it before, and the key now returns it.
C1_Witness ==
    /\ op.name = "insert"
    /\ pre # Node_new
    /\ get(pre, op.key) # op.value
    /\ get(root, op.key) = op.value

\* C2: after delete(k), get(k) returns absent, and a key that was absent
\* before a call is present after it only if the call was an insert or
\* insert_nibbles of the key's own nibble sequence.
C2_DeleteRemovesValue ==
    /\ op.name = "delete" => get(root, op.key) = None
    /\ \A k \in ProbeKeys :
          (get(pre, k) = None /\ get(root, k) # None)
              => \/ op.name = "insert"
                    /\ hex_to_nibbles(op.key) = hex_to_nibbles(k)
                 \/ op.name = "insert_nibbles"
                    /\ op.nibbles = hex_to_nibbles(k)

\* C2 happens: a key that held a value was deleted and is now absent.
C2_Witness ==
    /\ op.name = "delete"
    /\ get(pre, op.key) # None
    /\ get(root, op.key) = None

\* C3: delete(k) leaves get(j) as it was for every key j with another nibble
\* sequence, and every node on the path of another key that holds a value
\* stays in the tree, with its value.
C3_DeleteNonInterference ==
    op.name = "delete" =>
        /\ \A j \in ProbeKeys :
              hex_to_nibbles(j) # hex_to_nibbles(op.key)
                  => get(root, j) = get(pre, j)
        /\ \A p \in DOMAIN pre :
              (pre[p] # None /\ p # hex_to_nibbles(op.key))
                  => \A q \in Prefixes(p) :
                        /\ q \in DOMAIN root
                        /\ q # hex_to_nibbles(op.key) => root[q] = pre[q]

\* C3 happens: with a1f and a1e stored, a1f was deleted; the nodes a and a1
\* are still there and a1e still returns its value.
C3_Witness ==
    /\ op.name = "delete"
    /\ op.key = <<"a", "1", "f">>
    /\ get(pre, <<"a", "1", "f">>) # None
    /\ get(root, <<"a", "1", "e">>) # None
    /\ <<10>> \in DOMAIN root
    /\ <<10, 1>> \in DOMAIN root
    /\ <<10, 1, 15>> \notin DOMAIN root

\* C4: after every completed operation the root is in the tree and no other
\* node has an absent value and sixteen empty slots.
C4_NoDeadNodes ==
    /\ <<>> \in DOMAIN root
    /\ ~panicked => \A p \in DOMAIN root : p # <<>> => ~is_dead(root, p)

\* C4 happens: a delete pruned a branch of two or more nodes and left the
\* root dead, still in the tree.
C4_Witness ==
    /\ op.name = "delete"
    /\ Cardinality(DOMAIN pre) >= 3
    /\ DOMAIN root = {<<>>}
    /\ is_dead(root, <<>>)

\* C5: when the tree is the one that inserting only k into the empty trie
\* gives, delete(k) leaves the empty trie, which renders as the root line
\* alone.
C5_Pruning ==
    (/\ op.name = "delete"
     /\ \E v \in Values : pre = insert(Node_new, op.key, v).tree)
        => /\ root = Node_new
           /\ fmt(root) = << <<"(root)">> >>

\* C5 happens: the only key stored, three nibbles long, was deleted.
C5_Witness ==
    /\ op.name = "delete"
    /\ Len(hex_to_nibbles(op.key)) = 3
    /\ \E v \in Values : pre = insert(Node_new, op.key, v).tree
    /\ root = Node_new

\* C6: no operation fails, whatever string or nibble sequence it is given.
C6_Total == ~panicked

\* C7: delete(k) of a key that holds no value leaves the whole tree as it
\* was, and does not fail.
C7_DeleteAbsentNoOp ==
    (op.name = "delete" /\ get(pre, op.key) = None)
        => root = pre /\ ~panicked

\* C7 happens: a key was deleted whose path exists in part only: its first
\* nibble has a node, the key itself has none.
C7_Witness ==
    /\ op.name = "delete"
    /\ get(pre, op.key) = None
    /\ hex_to_nibbles(op.key) \notin DOMAIN pre
    /\ SubSeq(hex_to_nibbles(op.key), 1, 2) \in DOMAIN pre
    /\ Len(hex_to_nibbles(op.key)) = 3
    /\ root = pre

\* C8: insert(k, v2) over a key that holds another value v1 leaves
\* get(k) = v2, changes nothing but the value of k's terminal node, and v1
\* is no longer returned for k: a key that still returns v1 is another key
\* that held v1 already (none, when v1 was stored under k alone).
C8_Overwrite ==
    (op.name = "insert" /\ get(pre, op.key) \in Values \ {op.value})
        => /\ get(root, op.key) = op.value
           /\ root = [pre EXCEPT ![hex_to_nibbles(op.key)] = op.value]
           /\ \A j \in ProbeKeys :
                 get(root, j) = get(pre, op.key)
                     => /\ hex_to_nibbles(j) # hex_to_nibbles(op.key)
                        /\ get(pre, j) = get(pre, op.key)

\* C8 happens: a key that has children and held v1, stored nowhere else, was
\* inserted again with v2, and no key returns v1 any more.
C8_Witness ==
    /\ op.name = "insert"
    /\ op.value = "v2"
    /\ get(pre, op.key) = "v1"
    /\ ~no_children(pre, hex_to_nibbles(op.key))
    /\ \A j \in ProbeKeys : get(root, j) # "v1"
    /\ get(root, op.key) = "v2"

\* C9: get(k) returns absent for every key whose nibble sequence no insert
\* or insert_nibbles has stored under, whether its path is missing or exists
\* as a prefix of, or an extension of, inserted keys.
C9_Absence ==
    \A k \in ProbeKeys :
        hex_to_nibbles(k) \notin inserted => get(root, k) = None

\* C9 happens: get returned absent for a never-inserted key whose node is in
\* the tree as an inner prefix of an inserted key.
C9_Witness ==
    /\ op.name = "get"
    /\ ret = None
    /\ hex_to_nibbles(op.key) \notin inserted
    /\ hex_to_nibbles(op.key) \in DOMAIN root
    /\ hex_to_nibbles(op.key) # <<>>

\* C10: once delete(k) has run, running delete(k) again gives the same tree.
C10_IdempotentDelete ==
    op.name = "delete" => delete(root, op.key).tree = root

\* C10 happens: a delete that changed the tree (it pruned a node) is
\* followed by the same delete, which changes nothing.
C10_Witness ==
    /\ op.name = "delete"
    /\ DOMAIN root # DOMAIN pre
    /\ delete(root, op.key).tree = root

\* The hexadecimal digits, in both cases.
HexChars ==
    { "0", "1", "2", "3", "4", "5", "6", "7", "8", "9",
      "a", "b", "c", "d", "e", "f", "A", "B", "C", "D", "E", "F" }

\* The lower-case form of a character.
ToLower(c) ==
    CASE c = "A" -> "a" [] c = "B" -> "b" [] c = "C" -> "c"
      [] c = "D" -> "d" [] c = "E" -> "e" [] c = "F" -> "f"
      [] OTHER -> c

\* s without the characters that are no hexadecimal digits, in lower case.
Stripped(s) ==
    LET hex == SelectSeq(s, LAMBDA c : c \in HexChars)
    IN  [i \in 1..Len(hex) |-> ToLower(hex[i])]

\* The strings the codec is tried on: digits of both cases, other characters
\* in front, in the middle and at the end, and none at all.
CodecStrings ==
    { <<>>, <<"g">>, <<"a", "1">>, <<"a", "1", "g">>, <<"A", "1">>,
      <<"A", "1", "g">>, <<"a", "1", "F">>, <<"-", "a", " ", "1", "E", "z">>,
      <<"B", "x", "0">>, <<"b", "0">>, <<"G", "h">>, <<"0", "9", "c", "D">>,
      <<"a", "1", "f", "0">> }

\* C11: the codec gives, in order, the value in 0..15 of each hexadecimal
\* digit of s (either case) and drops the other characters; so insert, get
\* and delete with s do what they do with s stripped of the other characters
\* and put in lower case.
C11_PermissiveParsing ==
    \A s \in CodecStrings :
        LET n == hex_to_nibbles(s)
        IN  /\ Len(n) = Len(Stripped(s))
            /\ \A i \in 1..Len(n) :
                  /\ n[i] \in 0..15
                  /\ NIBBLE_TO_HEX[n[i] + 1] = Stripped(s)[i]
            /\ get(root, s) = get(root, Stripped(s))
            /\ delete(root, s) = delete(root, Stripped(s))
            /\ \A v \in Values : insert(root, s, v) = insert(root, Stripped(s), v)

\* C11 happens: a value was inserted under "A1g" and is returned for "a1",
\* which did not return it before.
C11_Witness ==
    /\ op.name = "insert"
    /\ op.key = <<"A", "1", "g">>
    /\ get(pre, <<"a", "1">>) # op.value
    /\ get(root, <<"a", "1">>) = op.value
    /\ get(root, <<"a", "1", "g">>) = op.value

\* The strings without a hexadecimal digit that the empty key is tried as.
NoDigitStrings == { <<>>, <<"g">>, <<"G", "h">>, <<"-", " ">> }

\* C12: an insert with an empty nibble sequence (the empty string, a string
\* without a hexadecimal digit, an empty vector) sets the root's value and
\* creates no node, get("") then returns the value, and delete("") clears
\* the root's value and nothing else.
C12_EmptyKeyIsRoot ==
    /\ (op.name = "insert" /\ hex_to_nibbles(op.key) = <<>>)
          => /\ root = [pre EXCEPT ![<<>>] = op.value]
             /\ get(root, <<>>) = op.value
    /\ (op.name = "delete" /\ hex_to_nibbles(op.key) = <<>>)
          => root = [pre EXCEPT ![<<>>] = None]
    /\ \A s \in NoDigitStrings :
          /\ delete(root, s).tree = [root EXCEPT ![<<>>] = None]
          /\ \A v \in Values :
                /\ insert(root, s, v).tree = [root EXCEPT ![<<>>] = v]
                /\ get(insert(root, s, v).tree, <<>>) = v
    /\ \A v \in Values :
          insert_nibbles(root, <<>>, v).tree = [root EXCEPT ![<<>>] = v]

\* C12 happens: the root held a value, stored there by an insert of the
\* empty key, and had children; delete("") cleared the value and left every
\* node in place.
C12_Witness ==
    /\ op.name = "delete"
    /\ op.key = <<>>
    /\ pre[<<>>] # None
    /\ Cardinality(DOMAIN pre) >= 4
    /\ root[<<>>] = None
    /\ DOMAIN root = DOMAIN pre
    /\ get(root, <<>>) = None

\* C13: insert(k, v) gives the tree (and the outcome) that insert_nibbles
\* gives for the codec's nibbles of k, on every reachable tree: for the
\* insert just made and for every key and value that could come next.
C13_InsertEquivalence ==
    /\ op.name = "insert"
          => /\ root = insert_nibbles(pre, hex_to_nibbles(op.key), op.value).tree
             /\ panicked = insert_nibbles(pre, hex_to_nibbles(op.key), op.value).panicked
    /\ \A k \in Keys \cup CodecStrings : \A v \in Values :
          insert(root, k, v) = insert_nibbles(root, hex_to_nibbles(k), v)

\* C13 happens: insert of "b0" created the nodes b and b0 in a tree that
\* holds a value under a1, and insert_nibbles of <<11, 0>> on the tree
\* before it gives the tree it left.
C13_Witness ==
    /\ op.name = "insert"
    /\ op.key = <<"b", "0">>
    /\ <<11>> \notin DOMAIN pre
    /\ get(pre, <<"a", "1">>) \in Values
    /\ root = insert_nibbles(pre, <<11, 0>>, op.value).tree

\* C14: insert(k, v) adds the nodes of the prefixes of k's nibbles that were
\* not in the tree, and no other node, removes none, sets the terminal
\* node's value to v, gives the new inner nodes no value and leaves every
\* other node's value as it was; so get(j) is as before for every key j of
\* another nibble sequence.
C14_InsertFrame ==
    op.name = "insert" =>
        LET n == hex_to_nibbles(op.key)
        IN  /\ DOMAIN root = DOMAIN pre \cup Prefixes(n)
            /\ root[n] = op.value
            /\ \A p \in DOMAIN root \ {n} :
                  root[p] = IF p \in DOMAIN pre THEN pre[p] ELSE None
            /\ \A j \in ProbeKeys :
                  hex_to_nibbles(j) # n => get(root, j) = get(pre, j)

\* C14 happens: an insert found the first two nodes of its path in the
\* tree and created the third alone.
C14_Witness ==
    /\ op.name = "insert"
    /\ Len(hex_to_nibbles(op.key)) = 3
    /\ SubSeq(hex_to_nibbles(op.key), 1, 2) \in DOMAIN pre
    /\ hex_to_nibbles(op.key) \notin DOMAIN pre
    /\ Cardinality(DOMAIN root) = Cardinality(DOMAIN pre) + 1
    /\ \E p \in DOMAIN pre : Len(p) = 3 /\ root[p] = pre[p] /\ pre[p] # None

\* C15: get and render leave the tree exactly as it was (and do not fail);
\* a get whose path is missing returns absent and creates no node.
C15_ReadOnly ==
    /\ op.name \in {"get", "render"} => (root = pre /\ ~panicked)
    /\ (op.name = "get" /\ hex_to_nibbles(op.key) \notin DOMAIN pre)
          => (ret = None /\ DOMAIN root = DOMAIN pre)

\* C15 happens: a get of three nibbles found the first two nodes of its
\* path and not the third, returned absent, and the tree has no new node.
C15_Witness ==
    /\ op.name = "get"
    /\ Len(hex_to_nibbles(op.key)) = 3
    /\ SubSeq(hex_to_nibbles(op.key), 1, 2) \in DOMAIN pre
    /\ hex_to_nibbles(op.key) \notin DOMAIN pre
    /\ ret = None
    /\ root = pre

\* The key-to-value map a tree holds: the nibble sequences with a value.
StoredMap(t) == [p \in { p \in DOMAIN t : t[p] # None } |-> t[p]]

\* The tree with the root, the prefixes of the keys of map m, and no other
\* node, holding m's values.
Canonical(m) ==
    [q \in {<<>>} \cup UNION { Prefixes(p) : p \in DOMAIN m } |->
        IF q \in DOMAIN m THEN m[q] ELSE None]

\* C16: after every completed operation the nodes below the root are exactly
\* the non-empty prefixes of the nibble sequences that hold a value, so the
\* tree is the one tree its key-to-value map determines.
C16_CanonicalShape ==
    ~panicked =>
        /\ DOMAIN root \ {<<>>} =
              UNION { Prefixes(p) : p \in DOMAIN StoredMap(root) } \ {<<>>}
        /\ root = Canonical(StoredMap(root))

\* C16 happens: a delete pruned a node from a tree that still holds two
\* keys or more, one of them under an inner node.
C16_Witness ==
    /\ op.name = "delete"
    /\ DOMAIN root # DOMAIN pre
    /\ Cardinality(DOMAIN StoredMap(root)) >= 2
    /\ \E p \in DOMAIN StoredMap(root) : p # <<>> /\ ~no_children(root, p)
    /\ root = Canonical(StoredMap(root))

\* Path p comes before path q in depth-first pre-order with the children in
\* ascending slot order: p is a proper prefix of q, or p has the smaller
\* slot where they first differ.
Before(p, q) ==
    \E i \in 1..Len(q) :
        /\ \A j \in 1..(i - 1) : j <= Len(p) /\ p[j] = q[j]
        /\ (i > Len(p) \/ p[i] < q[i])

\* The paths of set S in that order.
RECURSIVE PreOrder(_)
PreOrder(S) ==
    IF S = {} THEN <<>>
    ELSE LET first == CHOOSE p \in S : \A q \in S \ {p} : Before(p, q)
         IN  <<first>> \o PreOrder(S \ {first})

\* The pieces of a line that are no bullet and no indentation.
Text(line) ==
    SelectSeq(line, LAMBDA x : x \notin {BULLET_LAST, BULLET_MID,
                                          INDENT_BAR, INDENT_BLANK})

\* What a line says of the node at path p: its label, then its value if it
\* has one.
Label(t, p) ==
    <<IF p = <<>> THEN "(root)" ELSE NIBBLE_TO_HEX[p[Len(p)] + 1]>>
        \o (IF t[p] = None THEN <<>> ELSE <<" = ", t[p]>>)

\* C17: render writes one line per node: the root's first, labelled
\* "(root)", then the other nodes' in depth-first pre-order, children in
\* ascending slot order; a node's line carries the hexadecimal character of
\* the slot that leads to it and its value exactly when it has one.
C17_RenderOrder ==
    LET out == fmt(root)
        order == PreOrder(DOMAIN root)
    IN  /\ Len(out) = Cardinality(DOMAIN root)
        /\ \A i \in 1..Len(out) : Text(out[i]) = Label(root, order[i])
        /\ out[1][1] = "(root)"
        /\ op.name = "render" => ret = out

\* C17 happens: the tree with the nodes a, a1, a1e, a1f, b, b0, values on
\* inner nodes and leaves, was rendered in seven lines.
C17_Witness ==
    /\ op.name = "render"
    /\ DOMAIN root = {<<>>, <<10>>, <<10, 1>>, <<10, 1, 14>>, <<10, 1, 15>>,
                      <<11>>, <<11, 0>>}
    /\ root[<<10, 1>>] # None
    /\ root[<<10>>] = None
    /\ Len(ret) = 7
    /\ Text(ret[4]) = <<"e", " = ", root[<<10, 1, 14>>]>>

\* The node at path p (not the root) is in the highest slot of its parent
\* that holds a child.
IsLastChild(t, p) ==
    \A i \in 0..(NumSlots - 1) :
        Append(SubSeq(p, 1, Len(p) - 1), i) \in DOMAIN t => i <= p[Len(p)]

\* The indentation and bullet expected in front of the label of the node at
\* path p: a segment for each ancestor of depth 1 to Len(p) - 1, then the
\* bullet.
Connectors(t, p) ==
    [k \in 1..(Len(p) - 1) |->
        IF IsLastChild(t, SubSeq(p, 1, k)) THEN INDENT_BLANK ELSE INDENT_BAR]
        \o <<IF IsLastChild(t, p) THEN BULLET_LAST ELSE BULLET_MID>>

\* C18: the line of a node at depth d >= 1 starts with d - 1 indentation
\* segments, one per ancestor from depth 1 to d - 1, a bar below an ancestor
\* that is not its parent's last child and a blank below one that is, and
\* then the last-child bullet iff the node is in its parent's highest
\* occupied slot, the other bullet if not.
C18_RenderConnectors ==
    LET out == fmt(root)
        order == PreOrder(DOMAIN root)
    IN  /\ Len(out) = Len(order)
        /\ \A i \in 2..Len(out) :
              LET d == Len(order[i])
              IN  /\ Len(out[i]) > d
                  /\ SubSeq(out[i], 1, d) = Connectors(root, order[i])
                  /\ SubSeq(out[i], d + 1, Len(out[i])) = Text(out[i])

\* C18 happens: in a rendered tree the line of a1e is a bar (a is followed
\* by b), a blank (a1 is a's last child) and the bullet of a child that is
\* not last (a1f follows), and the line of b0 is a blank and the last-child
\* bullet.
C18_Witness ==
    /\ op.name = "render"
    /\ Len(ret) = 7
    /\ SubSeq(ret[4], 1, 4) = <<INDENT_BAR, INDENT_BLANK, BULLET_MID, "e">>
    /\ SubSeq(ret[5], 1, 4) = <<INDENT_BAR, INDENT_BLANK, BULLET_LAST, "f">>
    /\ SubSeq(ret[7], 1, 3) = <<INDENT_BLANK, BULLET_LAST, "0">>

\* C19: delete(k) returns true exactly when, after it, the root has no value
\* and no child, whether or not k held a value.
C19_DeleteReportsEmpty ==
    op.name = "delete" =>
        (ret <=> (root[<<>>] = None /\ DOMAIN root = {<<>>}))

\* C19 happens: a delete of a key that held no value returned true, on the
\* empty trie; the same call returns false on the tree before, once a key
\* is stored in it.
C19_Witness ==
    /\ op.name = "delete"
    /\ op.key # <<>>
    /\ get(pre, op.key) = None
    /\ ret = TRUE
    /\ root = Node_new
    /\ ~delete(insert(pre, <<"b", "0">>, "v1").tree, op.key).should_prune

====
